---- MODULE Spec2Model ----
(***************************************************************************)
(* A model of src/index.ts of tsfsm, a thin layer over the Firestore web   *)
(* client: writeBatch (chunked batch writer), parseFieldPath (field-path   *)
(* shaper), getDoc / getDocs (reads shaped by field paths) and listenDoc / *)
(* listenDocs (snapshot listeners).                                        *)
(***************************************************************************)
EXTENDS Integers, Sequences, FiniteSets, TLC

VARIABLES
    \* ---- writeBatch(fs, writes) ----
    pc,          \* position in writeBatch
    writesLen,   \* writes.length
    writesLead,  \* how many leading writes of the list carry no data
    chunkWrites, \* chunk(writes, 500): the chunks, as <<first, last>> index pairs
    ci,          \* index of the chunk the outer for-of loop is at
    wi,          \* index (in writes) of the write the inner for-of loop is at
    batch,       \* the local `batch` of the outer loop body (an object id, 0: none)
    batchOps,    \* the WriteBatch objects writeDocs(fs) has made: id -> operations
    batches,     \* the local array `batches` (object ids)
    commits,     \* the promise of each batches[i].commit()
    promise,     \* the promise writeBatch returns
    reason,      \* the index of the commit whose rejection rejected `promise`
    settled,     \* the commits settled so far, in the order they settled
    store,       \* the batch objects the external store has applied
    \* ---- parseFieldPath(fp, data) ----
    pfPc,        \* "idle", "call": called with fp and data, "done": returned
    fp,          \* the argument `fp`, a string (sequence of characters)
    data,        \* the argument `data`
    result,      \* the value returned
    \* ---- getDoc / getDocs ----
    getPc,       \* "idle", "getDoc" / "getDocs" (awaiting the client), "done"
    snaps,       \* the snapshot(s) the external client answers with
    dataOnly,    \* the argument `dataOnly`
    getFields,   \* the field paths of the rest argument `getFields`
    returned,    \* the value the call resolves to
    \* ---- listenDoc / listenDocs ----
    listeners,   \* the registrations onSnapshot has made in the external client
    handles      \* what each listenDoc / listenDocs call returned to its caller

wbVars == <<pc, writesLen, writesLead, chunkWrites, ci, wi, batch, batchOps,
            batches, commits, promise, reason, settled, store>>

pfVars == <<pfPc, fp, data, result>>

getVars == <<getPc, snaps, dataOnly, getFields, returned>>

lsVars == <<listeners, handles>>

vars == <<wbVars, pfVars, getVars, lsVars>>

(***************************************************************************)
(* Bounds of the model and constants of the program.                       *)
(***************************************************************************)
\* the write-batch ceiling of writeBatch
ChunkSize == 500

\* lists of up to MaxChunks full chunks and one write more are passed
MaxChunks == 2

\* `data` absent (undefined): falsy in `type === ... && data`
NoData == 0

Min(a, b) == IF a < b THEN a ELSE b

\* enum WriteType
WriteType == [DELETE |-> "Delete", SET |-> "Set", UPDATE |-> "Update"]

(***************************************************************************)
(* The write lists passed to writeBatch.  Write i targets document         *)
(* reference i; the first `lead` writes are Set / Update entries without   *)
(* data, the others cycle through Set, Update (payload i) and Delete.      *)
(***************************************************************************)
WriteAt(i, lead) ==
    IF i <= lead
    THEN [type |-> IF i % 2 = 1 THEN WriteType.SET ELSE WriteType.UPDATE,
          ref |-> i, data |-> NoData]
    ELSE CASE (i - lead) % 3 = 1 -> [type |-> WriteType.SET, ref |-> i, data |-> i]
           [] (i - lead) % 3 = 2 -> [type |-> WriteType.UPDATE, ref |-> i, data |-> i]
           [] OTHER -> [type |-> WriteType.DELETE, ref |-> i, data |-> NoData]

WriteLengths ==
    {0, 1, 2, ChunkSize + ChunkSize \div 2}
        \cup {k * ChunkSize + d : k \in 1..MaxChunks, d \in {-1, 0, 1}}

WriteLeads == {0, 1, ChunkSize}

\* lodash chunk(array, size): consecutive slices of `size` elements, the last
\* one shorter; a slice is given by the indices of its first and last element
Chunk(len, size) ==
    [k \in 1..((len + size - 1) \div size) |->
        <<(k - 1) * size + 1, Min(k * size, len)>>]

(***************************************************************************)
(* The three `if`s of a loop body: the operations the write appends.       *)
(***************************************************************************)
OpsOfWrite(w) ==
    (IF w.type = WriteType.UPDATE /\ w.data # NoData
        THEN <<[op |-> "update", ref |-> w.ref, data |-> w.data]>> ELSE <<>>)
    \o (IF w.type = WriteType.DELETE
        THEN <<[op |-> "delete", ref |-> w.ref, data |-> NoData]>> ELSE <<>>)
    \o (IF w.type = WriteType.SET /\ w.data # NoData
        THEN <<[op |-> "set", ref |-> w.ref, data |-> w.data]>> ELSE <<>>)

\* the batch object the loop bodies append to: batches[0]; 0 when undefined
TargetBatch(bs, b) == IF Len(bs) = 0 THEN 0 ELSE bs[1]

\* one loop body on write w: batches[0].update / delete / set.  Reading a
\* method of batches[0] while the array is empty throws a TypeError.
ApplyWrite(w, next) ==
    LET ops == OpsOfWrite(w)
        t   == TargetBatch(batches, batch)
    IN  IF ops = <<>>
        THEN /\ pc' = next
             /\ UNCHANGED batchOps
        ELSE IF t = 0
        THEN /\ pc' = "threw"
             /\ UNCHANGED batchOps
        ELSE /\ pc' = next
             /\ batchOps' = [batchOps EXCEPT ![t] = @ \o ops]

\* a Promise.all that waits for every promise and never rejects
PromiseAllSettled(cs, prev) ==
    IF prev # "pending" THEN prev
    ELSE IF \A i \in 1..Len(cs) : cs[i] # "pending" THEN "resolved"
    ELSE "pending"

\* Promise.all over the commit promises: rejected at the first rejection,
\* resolved once every one is resolved
PromiseAll(cs, prev) ==
    IF prev # "pending" THEN prev
    ELSE IF \E i \in 1..Len(cs) : cs[i] = "rejected" THEN "rejected"
    ELSE IF \A i \in 1..Len(cs) : cs[i] = "resolved" THEN "resolved"
    ELSE "pending"

(***************************************************************************)
(* writeBatch, step by step.                                               *)
(***************************************************************************)
\* the call: `const batches = []` and the test of line 210
WriteBatch(n, lead) ==
    /\ pc = "idle"
    /\ writesLen' = n
    /\ writesLead' = lead
    /\ batches' = <<>>
    /\ IF n > ChunkSize
       THEN /\ chunkWrites' = Chunk(n, ChunkSize)
            /\ ci' = 1
            /\ pc' = "forChunk"
       ELSE /\ UNCHANGED <<chunkWrites, ci>>
            /\ pc' = "ifSmall"
    /\ UNCHANGED <<wi, batch, batchOps, commits, promise, reason, settled, store>>
    /\ UNCHANGED <<pfVars, getVars, lsVars>>

\* `for (const chunk of chunkWrites)`: `const batch = writeDocs(fs)`
ForChunk ==
    /\ pc = "forChunk"
    /\ IF ci <= Len(chunkWrites)
       THEN /\ batchOps' = Append(batchOps, <<>>)
            /\ batch' = Len(batchOps) + 1
            /\ wi' = chunkWrites[ci][1]
            /\ pc' = "forChunkWrite"
       ELSE /\ pc' = "ifSmall"
            /\ UNCHANGED <<batchOps, batch, wi>>
    /\ UNCHANGED <<writesLen, writesLead, chunkWrites, ci, batches, commits,
                   promise, reason, settled, store>>
    /\ UNCHANGED <<pfVars, getVars, lsVars>>

\* `for (const { data, ref, type } of chunk)`: one write of the chunk
ForChunkWrite ==
    /\ pc = "forChunkWrite"
    /\ wi <= chunkWrites[ci][2]
    /\ ApplyWrite(WriteAt(wi, writesLead), "forChunkWrite")
    /\ wi' = wi + 1
    /\ UNCHANGED <<writesLen, writesLead, chunkWrites, ci, batch, batches,
                   commits, promise, reason, settled, store>>
    /\ UNCHANGED <<pfVars, getVars, lsVars>>

\* the end of the outer loop body: `batches.push(batch)`
PushBatch ==
    /\ pc = "forChunkWrite"
    /\ wi > chunkWrites[ci][2]
    /\ batches' = Append(batches, batch)
    /\ ci' = ci + 1
    /\ pc' = "forChunk"
    /\ UNCHANGED <<writesLen, writesLead, chunkWrites, wi, batch, batchOps,
                   commits, promise, reason, settled, store>>
    /\ UNCHANGED <<pfVars, getVars, lsVars>>

\* `if (writes.length <= 500)`
IfSmall ==
    /\ pc = "ifSmall"
    /\ IF writesLen <= ChunkSize
       THEN /\ wi' = 1
            /\ pc' = "forWrite"
       ELSE /\ pc' = "commit"
            /\ UNCHANGED wi
    /\ UNCHANGED <<writesLen, writesLead, chunkWrites, ci, batch, batchOps,
                   batches, commits, promise, reason, settled, store>>
    /\ UNCHANGED <<pfVars, getVars, lsVars>>

\* `for (const { data, ref, type } of writes)`: one write of the list
ForWrite ==
    /\ pc = "forWrite"
    /\ wi <= writesLen
    /\ ApplyWrite(WriteAt(wi, writesLead), "forWrite")
    /\ wi' = wi + 1
    /\ UNCHANGED <<writesLen, writesLead, chunkWrites, ci, batch, batches,
                   commits, promise, reason, settled, store>>
    /\ UNCHANGED <<pfVars, getVars, lsVars>>

ForWriteEnd ==
    /\ pc = "forWrite"
    /\ wi > writesLen
    /\ pc' = "commit"
    /\ UNCHANGED <<writesLen, writesLead, chunkWrites, ci, wi, batch, batchOps,
                   batches, commits, promise, reason, settled, store>>
    /\ UNCHANGED <<pfVars, getVars, lsVars>>

\* `return Promise.all(batches.map((batch) => batch.commit()))`: every commit
\* is issued, then the promise over them is returned
Commit ==
    /\ pc = "commit"
    /\ commits' = [i \in 1..Len(batches) |-> "pending"]
    /\ promise' = PromiseAll(commits', "pending")
    /\ pc' = "returned"
    /\ UNCHANGED <<writesLen, writesLead, chunkWrites, ci, wi, batch, batchOps,
                   batches, reason, settled, store>>
    /\ UNCHANGED <<pfVars, getVars, lsVars>>

\* the external client settles commit i, and Promise.all reacts
CommitSettles(i, outcome) ==
    /\ pc = "returned"
    /\ i \in 1..Len(commits)
    /\ commits[i] = "pending"
    /\ commits' = [commits EXCEPT ![i] = outcome]
    /\ settled' = Append(settled, i)
    /\ promise' = PromiseAll(commits', promise)
    /\ reason' = IF promise = "pending" /\ promise' = "rejected" THEN i ELSE reason
    /\ store' = IF outcome = "resolved" THEN store \cup {batches[i]} ELSE store
    /\ UNCHANGED <<pc, writesLen, writesLead, chunkWrites, ci, wi, batch,
                   batchOps, batches>>
    /\ UNCHANGED <<pfVars, getVars, lsVars>>

InitWriteBatch ==
    /\ pc = "idle"
    /\ writesLen = 0
    /\ writesLead = 0
    /\ chunkWrites = <<>>
    /\ ci = 0
    /\ wi = 0
    /\ batch = 0
    /\ batchOps = <<>>
    /\ batches = <<>>
    /\ commits = <<>>
    /\ promise = "none"
    /\ reason = 0
    /\ settled = <<>>
    /\ store = {}

NextWriteBatch ==
    \/ \E n \in WriteLengths, lead \in WriteLeads : WriteBatch(n, lead)
    \/ ForChunk
    \/ ForChunkWrite
    \/ PushBatch
    \/ IfSmall
    \/ ForWrite
    \/ ForWriteEnd
    \/ Commit
    \/ \E i \in 1..(MaxChunks + 1), outcome \in {"resolved", "rejected"} :
          CommitSettles(i, outcome)


(***************************************************************************)
(* JavaScript values.  A value is a primitive (a string names it) or an    *)
(* object, a function from keys to values; a key is a string, here a       *)
(* sequence of characters, so that split and join work on it.              *)
(***************************************************************************)
Prim(p) == [kind |-> "prim", prim |-> p, fields |-> [k \in {} |-> TRUE]]

Obj(f) == [kind |-> "obj", prim |-> "", fields |-> f]

Undefined == Prim("undefined")

\* the literal {}
EmptyObject == Obj([k \in {} |-> TRUE])

\* the literal { [key]: value }
ObjectOf(key, value) == Obj([k \in {key} |-> value])

\* the literal { ...a, ...b } of two objects: b's keys win
Spread(a, b) ==
    Obj([k \in (DOMAIN a.fields) \cup (DOMAIN b.fields) |->
            IF k \in DOMAIN b.fields THEN b.fields[k] ELSE a.fields[k]])

\* String.prototype.split('.'): the pieces between the dots, empty ones kept
RECURSIVE Split(_)
Split(str) ==
    IF \A i \in 1..Len(str) : str[i] # "."
    THEN <<str>>
    ELSE LET d == CHOOSE i \in 1..Len(str) :
                      str[i] = "." /\ \A j \in 1..(i - 1) : str[j] # "."
         IN  <<SubSeq(str, 1, d - 1)>> \o Split(SubSeq(str, d + 1, Len(str)))

\* Array.prototype.join('.')
RECURSIVE Join(_)
Join(fields) ==
    IF Len(fields) = 0 THEN <<>>
    ELSE IF Len(fields) = 1 THEN fields[1]
    ELSE fields[1] \o <<".">> \o Join(Tail(fields))

\* a shaper that nests under the first segment only
parseFieldPathFlat(path, value) == ObjectOf(Split(path)[1], value)

RECURSIVE parseFieldPath(_, _)
parseFieldPath(path, value) ==
    LET fields == Split(path)
    IN  IF Len(Tail(fields)) # 0
        THEN ObjectOf(fields[1], parseFieldPath(Join(Tail(fields)), value))
        ELSE ObjectOf(fields[1], value)

(***************************************************************************)
(* Calls of parseFieldPath, on every path of up to MaxSegments segments    *)
(* over Keys and on the values of Values.                                  *)
(***************************************************************************)
MaxSegments == 3

Keys == {<<>>, <<"a">>, <<"b">>, <<"c">>, <<"k">>, <<"a", "b">>}

RECURSIVE SegmentLists(_)
SegmentLists(n) ==
    IF n = 0 THEN {<<>>}
    ELSE {<<k>> \o t : k \in Keys, t \in SegmentLists(n - 1)}

Paths == {Join(segs) : segs \in UNION {SegmentLists(n) : n \in 1..MaxSegments}}

Values ==
    {Prim("v1"), Prim("v2"), Undefined, EmptyObject,
     ObjectOf(<<"a">>, Prim("v1"))}

\* the call returns
ParseFieldPath ==
    /\ pfPc = "call"
    /\ result' = parseFieldPath(fp, data)
    /\ pfPc' = "done"
    /\ UNCHANGED <<fp, data>>
    /\ UNCHANGED <<wbVars, getVars, lsVars>>

\* parseFieldPath is called with any path and any value
InitParseFieldPath ==
    /\ pfPc = "call"
    /\ fp \in Paths
    /\ data \in Values
    /\ result = Undefined

\* no call of parseFieldPath is under way
IdleParseFieldPath ==
    /\ pfPc = "idle"
    /\ fp = <<>>
    /\ data = Undefined
    /\ result = Undefined

NextParseFieldPath == ParseFieldPath

(***************************************************************************)
(* getDoc and getDocs.  The external client answers with snapshots; a      *)
(* snapshot has an id, exists, metadata, data() and get(fieldPath).        *)
(***************************************************************************)
MaxFields == 2

MaxSnaps == 2

KeyData == <<"d", "a", "t", "a">>

KeyExists == <<"e", "x", "i", "s", "t", "s">>

KeyId == <<"i", "d">>

KeyMetadata == <<"m", "e", "t", "a", "d", "a", "t", "a">>

\* the documents the client holds: {a: v1, b: {c: v2}}, {a: {b: v1}, c: {}}
\* and one that does not exist
Snapshots ==
    {[id |-> "d1", exists |-> "true",
      doc |-> Obj([k \in {<<"a">>, <<"b">>} |->
                     IF k = <<"a">> THEN Prim("v1")
                     ELSE ObjectOf(<<"c">>, Prim("v2"))])],
     [id |-> "d2", exists |-> "true",
      doc |-> Obj([k \in {<<"a">>, <<"c">>} |->
                     IF k = <<"a">> THEN ObjectOf(<<"b">>, Prim("v1"))
                     ELSE EmptyObject])],
     [id |-> "d3", exists |-> "false", doc |-> Undefined]}

FieldPaths == {<<"a">>, <<"c">>, <<"a", ".", "b">>, <<"b", ".", "c">>}

SeqsUpTo(S, n) == UNION {[1..m -> S] : m \in 0..n}

\* the value under the keys segs of a value; undefined where there is none
RECURSIVE Walk(_, _)
Walk(value, segs) ==
    IF Len(segs) = 0 THEN value
    ELSE IF value.kind = "obj" /\ segs[1] \in DOMAIN value.fields
    THEN Walk(value.fields[segs[1]], Tail(segs))
    ELSE Undefined

\* snapshot.get(fieldPath) of the external client
SnapGet(snap, fieldPath) == Walk(snap.doc, Split(fieldPath))

\* snapshot.data() of the external client
SnapData(snap) == snap.doc

\* `getFields.map(({ fieldPath, options }) => ({ data: get(...), fieldPath }))`
MapGetFields(snap, fields) ==
    [i \in 1..Len(fields) |->
        [data |-> SnapGet(snap, fields[i]), fieldPath |-> fields[i]]]

\* `let data = {}; for (const v of d) { data = { ...data, ...parseFieldPath(
\* v.fieldPath, data) } }`: data after the first k entries of d
RECURSIVE ShapeLoop(_, _)
ShapeLoop(d, k) ==
    IF k = 0 THEN EmptyObject
    ELSE LET acc == ShapeLoop(d, k - 1)
         IN  Spread(acc, parseFieldPath(d[k].fieldPath, acc))

ShapedData(snap, fields) ==
    LET d == MapGetFields(snap, fields) IN ShapeLoop(d, Len(d))

\* `{ data, exists, id, metadata }`
WithMeta(snap, value) ==
    Obj([k \in {KeyData, KeyExists, KeyId, KeyMetadata} |->
            CASE k = KeyData -> value
              [] k = KeyExists -> Prim(snap.exists)
              [] k = KeyId -> Prim(snap.id)
              [] OTHER -> Prim("metadata")])

\* what getDoc, and each element of getDocs, resolves to for one snapshot
ResultFor(snap, only, fields) ==
    LET value == IF Len(fields) # 0 THEN ShapedData(snap, fields)
                 ELSE SnapData(snap)
    IN  IF only THEN value ELSE WithMeta(snap, value)

\* getDoc(ref, dataOnly, options, ...getFields) up to its await
GetDoc(snap, only, fields) ==
    /\ getPc = "idle"
    /\ getPc' = "getDoc"
    /\ snaps' = <<snap>>
    /\ dataOnly' = only
    /\ getFields' = fields
    /\ UNCHANGED returned
    /\ UNCHANGED <<wbVars, pfVars, lsVars>>

\* the snapshot arrives and getDoc runs to its return
GetDocReturns ==
    /\ getPc = "getDoc"
    /\ returned' = <<ResultFor(snaps[1], dataOnly, getFields)>>
    /\ getPc' = "done"
    /\ UNCHANGED <<snaps, dataOnly, getFields>>
    /\ UNCHANGED <<wbVars, pfVars, lsVars>>

\* getDocs(query, dataOnly, options, ...getFields) up to its await
GetDocs(docs, only, fields) ==
    /\ getPc = "idle"
    /\ getPc' = "getDocs"
    /\ snaps' = docs
    /\ dataOnly' = only
    /\ getFields' = fields
    /\ UNCHANGED returned
    /\ UNCHANGED <<wbVars, pfVars, lsVars>>

\* the query snapshot arrives and getDocs maps its documents
GetDocsReturns ==
    /\ getPc = "getDocs"
    /\ returned' = [i \in 1..Len(snaps) |-> ResultFor(snaps[i], dataOnly, getFields)]
    /\ getPc' = "done"
    /\ UNCHANGED <<snaps, dataOnly, getFields>>
    /\ UNCHANGED <<wbVars, pfVars, lsVars>>

InitGet ==
    /\ getPc = "idle"
    /\ snaps = <<>>
    /\ dataOnly = FALSE
    /\ getFields = <<>>
    /\ returned = <<>>

NextGet ==
    \/ \E snap \in Snapshots, only \in BOOLEAN, fields \in SeqsUpTo(FieldPaths, MaxFields) :
          GetDoc(snap, only, fields)
    \/ GetDocReturns
    \/ \E docs \in SeqsUpTo(Snapshots, MaxSnaps), only \in BOOLEAN,
          fields \in SeqsUpTo(FieldPaths, MaxFields) :
          GetDocs(docs, only, fields)
    \/ GetDocsReturns

(***************************************************************************)
(* listenDoc and listenDocs.  onSnapshot registers a listener in the       *)
(* external client and returns the function that removes it.               *)
(***************************************************************************)
MaxListeners == 2

MaxEvents == 3

\* what a function without a return statement returns
NoHandle == 0

\* onSnapshot(target, observer): the registration, and the handle it returns
OnSnapshot(ls, target, cb) ==
    [listeners |-> Append(ls, [target |-> target, cb |-> cb, next |-> 0,
                               error |-> 0, active |-> TRUE]),
     unsubscribe |-> Len(ls) + 1]

\* listenDoc(ref, cb)
ListenDoc(cb) ==
    /\ Len(listeners) < MaxListeners
    /\ listeners' = OnSnapshot(listeners, "doc", cb).listeners
    /\ handles' = Append(handles, NoHandle)
    /\ UNCHANGED <<wbVars, pfVars, getVars>>

\* listenDocs(query, cb)
ListenDocs(cb) ==
    /\ Len(listeners) < MaxListeners
    /\ listeners' = OnSnapshot(listeners, "query", cb).listeners
    /\ handles' = Append(handles, NoHandle)
    /\ UNCHANGED <<wbVars, pfVars, getVars>>

\* the external client delivers a snapshot to cb.next of listener l
SnapshotEvent(l) ==
    /\ l \in 1..Len(listeners)
    /\ listeners[l].active
    /\ listeners[l].next < MaxEvents
    /\ listeners' = [listeners EXCEPT ![l].next = @ + 1]
    /\ UNCHANGED handles
    /\ UNCHANGED <<wbVars, pfVars, getVars>>

\* the external client delivers an error to cb.error of listener l, which
\* ends the stream
ErrorEvent(l) ==
    /\ l \in 1..Len(listeners)
    /\ listeners[l].active
    /\ listeners' = [listeners EXCEPT ![l].error = 1, ![l].active = FALSE]
    /\ UNCHANGED handles
    /\ UNCHANGED <<wbVars, pfVars, getVars>>

InitListen ==
    /\ listeners = <<>>
    /\ handles = <<>>

NextListen ==
    \/ \E cb \in {"cb1", "cb2"} : ListenDoc(cb)
    \/ \E cb \in {"cb1", "cb2"} : ListenDocs(cb)
    \/ \E l \in 1..MaxListeners : SnapshotEvent(l)
    \/ \E l \in 1..MaxListeners : ErrorEvent(l)

(***************************************************************************)
(* The specifications: one per operation of the library.                   *)
(***************************************************************************)
Init == InitWriteBatch /\ IdleParseFieldPath /\ InitGet /\ InitListen

SpecWriteBatch == Init /\ [][NextWriteBatch]_vars

InitCall == InitWriteBatch /\ InitParseFieldPath /\ InitGet /\ InitListen

SpecParseFieldPath == InitCall /\ [][NextParseFieldPath]_vars

SpecGet == Init /\ [][NextGet]_vars

SpecListen == Init /\ [][NextListen]_vars

(***************************************************************************)
(* The chunked batch writer as the specification describes it.             *)
(***************************************************************************)
\* the chunks of a list of n writes: one chunk up to ChunkSize writes
ChunksOf(n) == IF n <= ChunkSize THEN << <<1, n>> >> ELSE Chunk(n, ChunkSize)

\* the operations of writes lo..hi, in order
RECURSIVE OpsOfRange(_, _, _)
OpsOfRange(lo, hi, lead) ==
    IF lo > hi THEN <<>>
    ELSE IF lo = hi THEN OpsOfWrite(WriteAt(lo, lead))
    ELSE LET mid == (lo + hi) \div 2
         IN  OpsOfRange(lo, mid, lead) \o OpsOfRange(mid + 1, hi, lead)

\* the operations held by the batches of `batches`, in array order
RECURSIVE OpsOfBatches(_)
OpsOfBatches(k) ==
    IF k = 0 THEN <<>> ELSE OpsOfBatches(k - 1) \o batchOps[batches[k]]

Finished == pc \in {"returned", "threw"}

\* C1: a list of 0..500 writes is committed in exactly one batch commit, a list
\* of n > 500 writes in ceil(n/500) commits
C1_CommitCount ==
    Finished => Len(commits) = Len(ChunksOf(writesLen))

\* C2: every chunk has a batch object of its own, and at commit time batch i
\* holds exactly the operations of chunk i
C2_BatchPerChunk ==
    pc = "returned" =>
        /\ \A i, j \in 1..Len(batches) : i # j => batches[i] # batches[j]
        /\ \A i \in 1..Len(batches) :
              batchOps[batches[i]] =
                  OpsOfRange(ChunksOf(writesLen)[i][1], ChunksOf(writesLen)[i][2],
                             writesLead)

\* C3: the operations appended to the batches, in chunk order and then in the
\* order of each batch, are the operations of the write list in its order
C3_OrderPreserved ==
    Finished => OpsOfBatches(Len(batches)) = OpsOfRange(1, writesLen, writesLead)

\* C4: writeBatch raises no error of its own, whatever the write list
C4_NoOwnError == pc # "threw"

\* C5: no batch object ever holds more than 500 operations
C5_BatchSizeLimit ==
    \A b \in 1..Len(batchOps) : Len(batchOps[b]) <= ChunkSize

\* the commit whose rejection came first
FirstRejected ==
    LET ks == {k \in 1..Len(settled) : commits[settled[k]] = "rejected"}
    IN  settled[CHOOSE k \in ks : \A m \in ks : k <= m]

\* C6: once a commit is rejected the returned promise is rejected, with the
\* first rejection, in whatever order the commits settle; the batches whose
\* commit resolved stay applied
C6_FirstRejectionSurfaces ==
    /\ (\E i \in 1..Len(commits) : commits[i] = "rejected") =>
          /\ promise = "rejected"
          /\ reason = FirstRejected
    /\ \A i \in 1..Len(commits) : commits[i] = "resolved" => batches[i] \in store

C6_Witness ==
    /\ Len(commits) = 2
    /\ settled = <<2, 1>>
    /\ commits = <<"resolved", "rejected">>
    /\ promise = "rejected"
    /\ reason = 2
    /\ batches[1] \in store

\* C9: the returned promise is resolved only when the commit of every chunk of
\* the write list has been issued and has resolved
C9_ResolvedAfterEveryChunk ==
    promise = "resolved" =>
        \A c \in 1..Len(ChunksOf(writesLen)) :
            c <= Len(commits) /\ commits[c] = "resolved"

(***************************************************************************)
(* The readers, the shaper and the listeners as the specification          *)
(* describes them.                                                         *)
(***************************************************************************)
\* the field paths requested have pairwise distinct first segments
DistinctFirstSegments(fields) ==
    \A i, j \in 1..Len(fields) :
        i # j => Split(fields[i])[1] # Split(fields[j])[1]

\* the `data` of a result of getDoc / getDocs
DataOf(r) == IF dataOnly THEN r ELSE r.fields[KeyData]

\* C7: with field paths of pairwise distinct first segments, the data returned
\* holds under the keys of each path the value snapshot.get returned for it
C7_ShapedFromRetrieved ==
    (getPc = "done" /\ Len(getFields) # 0 /\ DistinctFirstSegments(getFields)) =>
        \A s \in 1..Len(snaps), i \in 1..Len(getFields) :
            Walk(DataOf(returned[s]), Split(getFields[i]))
                = SnapGet(snaps[s], getFields[i])

AllSegmentLists == UNION {SegmentLists(n) : n \in 1..MaxSegments}

\* C8: for the path of segments s0..sn and the value v, parseFieldPath returns
\* an object whose only key is s0, holding v when n = 0 and the shape of the
\* remaining path otherwise: one single-key object per segment, v innermost
C8_NestedBySegments ==
    pfPc = "done" =>
        \A segs \in AllSegmentLists :
            Join(segs) = fp =>
                /\ result.kind = "obj"
                /\ DOMAIN result.fields = {segs[1]}
                /\ result.fields[segs[1]] =
                      IF Len(segs) = 1 THEN data
                      ELSE parseFieldPath(Join(Tail(segs)), data)
                /\ \A k \in 1..Len(segs) :
                      LET inner == Walk(result, SubSeq(segs, 1, k - 1))
                      IN  inner.kind = "obj" /\ DOMAIN inner.fields = {segs[k]}
                /\ Walk(result, segs) = data

C8_Witness ==
    /\ pfPc = "done"
    /\ fp = <<"a", ".", "b", ".", "c">>
    /\ data = Prim("v1")
    /\ result = ObjectOf(<<"a">>, ObjectOf(<<"b">>, ObjectOf(<<"c">>, Prim("v1"))))

\* C10: every listenDoc / listenDocs call returns to its caller the handle
\* onSnapshot produced for the registration it made
C10_HandleReturned ==
    \A l \in 1..Len(handles) :
        handles[l] = OnSnapshot(SubSeq(listeners, 1, l - 1), listeners[l].target,
                                listeners[l].cb).unsubscribe

====
